---- MODULE Spec2Model ----
(***************************************************************************)
(* Model of fastyoutubeapi.py: the /download resolution pipeline           *)
(*   extract_video_id -> fetch_from_piped -> select_best_audio_stream      *)
(*   -> download_audio's projection of the result.                         *)
(*                                                                         *)
(* Python strings that the code inspects (the input, mime types, string    *)
(* scores) are sequences of one-character strings, so that strip, the      *)
(* regular expressions, startswith, "in" and the ordering of strings are   *)
(* computed.  Dictionary keys are only ever compared with literal names    *)
(* and stay TLA+ strings.  A parsed JSON document is a heap: a sequence of *)
(* container nodes (dict or list), node 1 being the root; a reference to a *)
(* container is its index, which plays the role of Python's id().          *)
(***************************************************************************)
EXTENDS Integers, Sequences, FiniteSets, TLC

VARIABLES
    url,        \* download_audio's parameter (a character sequence)
    pc,         \* "start" | "fetch" | "done": where the handler stands
    video_id,   \* extract_video_id's result (NoneStr before / when it fails)
    base,       \* index into PIPED_INSTANCES of the outer loop of fetch_from_piped
    attempt,    \* the inner loop's attempt number, 0 .. MAX_INSTANCE_RETRY-1
    log,        \* history: the mirror requests issued so far, with how each ended
    sent,       \* history: the ids put into the request URLs so far
    data,       \* fetch_from_piped's return value (a heap, NoneDoc when None)
    audio,      \* select_best_audio_stream's outcome
    status,     \* HTTP status of the answer (0 while the call runs)
    result,     \* body of the 200 answer (NoResult otherwise)
    elapsed,    \* upper bound of the time spent waiting on mirrors so far
    suspended   \* the frames of the other calls in flight, each waiting at an await

vars == <<url, pc, video_id, base, attempt, log, sent, data, audio, status, result, elapsed,
          suspended>>

----------------------------------------------------------------------------
(* Program constants *)

PIPED_INSTANCES == <<"https://piped.video", "https://yewtu.be", "https://yt.artemislena.eu">>

REQUEST_TIMEOUT == 20

MAX_INSTANCE_RETRY == 3

\* Length of a video id: the {11} of every pattern of extract_video_id.
ID_LEN == 11

----------------------------------------------------------------------------
(* Characters and strings *)

\* The characters the model's strings use, in code point order (Python
\* compares strings by code point).
Ascii ==
    << "\t", "\n", " ", "!", "&", "-", ".", "/",
       "0", "1", "2", "3", "4", "5", "6", "7", "8", "9", ":", "=", "?",
       "A", "B", "C", "D", "E", "F", "G", "H", "I", "J", "K", "L", "M",
       "N", "O", "P", "Q", "R", "S", "T", "U", "V", "W", "X", "Y", "Z", "_",
       "a", "b", "c", "d", "e", "f", "g", "h", "i", "j", "k", "l", "m",
       "n", "o", "p", "q", "r", "s", "t", "u", "v", "w", "x", "y", "z" >>

Ord(c) == CHOOSE i \in 1..Len(Ascii) : Ascii[i] = c

\* [0-9A-Za-z_-]
IdChars ==
    { "0", "1", "2", "3", "4", "5", "6", "7", "8", "9",
      "A", "B", "C", "D", "E", "F", "G", "H", "I", "J", "K", "L", "M",
      "N", "O", "P", "Q", "R", "S", "T", "U", "V", "W", "X", "Y", "Z",
      "a", "b", "c", "d", "e", "f", "g", "h", "i", "j", "k", "l", "m",
      "n", "o", "p", "q", "r", "s", "t", "u", "v", "w", "x", "y", "z",
      "_", "-" }

\* str.strip() with no argument strips whitespace.
Whitespace == { " ", "\t", "\n" }

NoneStr == << >>

\* s[i .. i+Len(p)-1] = p
HasAt(s, i, p) ==
    /\ i >= 1
    /\ i + Len(p) - 1 <= Len(s)
    /\ \A j \in 1..Len(p) : s[i + j - 1] = p[j]

\* str.startswith
StartsWith(s, p) == HasAt(s, 1, p)

\* p in s, for strings
Contains(s, p) == \E i \in 1..(Len(s) + 1) : HasAt(s, i, p)

\* a > b for strings: lexicographic by code point
StrGT(a, b) ==
    \/ \E i \in 1..Len(a) :
          /\ i <= Len(b)
          /\ \A j \in 1..(i - 1) : a[j] = b[j]
          /\ Ord(a[i]) > Ord(b[i])
    \/ /\ Len(a) > Len(b)
       /\ \A j \in 1..Len(b) : a[j] = b[j]

strip(s) ==
    LET keep == { i \in 1..Len(s) : s[i] \notin Whitespace }
    IN  IF keep = {} THEN << >>
        ELSE LET lo == CHOOSE i \in keep : \A j \in keep : i <= j
                 hi == CHOOSE i \in keep : \A j \in keep : i >= j
             IN  SubSeq(s, lo, hi)

----------------------------------------------------------------------------
(* extract_video_id *)

\* ([0-9A-Za-z_-]{11}) matches at position i of s
IdAt(s, i) ==
    /\ i >= 1
    /\ i + ID_LEN - 1 <= Len(s)
    /\ \A j \in i..(i + ID_LEN - 1) : s[j] \in IdChars

\* re.fullmatch(r"[0-9A-Za-z_-]{11}", s)
fullmatch_id(s) == Len(s) = ID_LEN /\ IdAt(s, 1)

\* re.search(r"(?:p1|p2|...)([0-9A-Za-z_-]{11})", s): the positions where one
\* of the literal prefixes is followed by an id
MatchStarts(s, prefixes) ==
    { i \in 1..Len(s) : \E p \in prefixes : HasAt(s, i, p) /\ IdAt(s, i + Len(p)) }

\* group(1) of the leftmost match (NoneStr when there is none)
search_id(s, prefixes) ==
    LET ms == MatchStarts(s, prefixes)
    IN  IF ms = {} THEN NoneStr
        ELSE LET i == CHOOSE x \in ms : \A y \in ms : x <= y
                 p == CHOOSE q \in prefixes : HasAt(s, i, q) /\ IdAt(s, i + Len(q))
             IN  SubSeq(s, i + Len(p), i + Len(p) + ID_LEN - 1)

PatShort == { <<"y", "o", "u", "t", "u", ".", "b", "e", "/">> }

\* Faulty variant of PatWatch: [?]v= in place of [?&]v=.
PatWatch_question_only == { <<"?", "v", "=">> }

PatWatch == { <<"?", "v", "=">>, <<"&", "v", "=">> }
PatEmbed == { <<"/", "e", "m", "b", "e", "d", "/">>, <<"/", "v", "/">> }

\* Faulty variant of PatAny: the last resort looks for /<id> only.
PatAny_after_slash == { <<"/">> }

PatAny   == { << >> }

\* Faulty variant of extract_video_id: the watch?v= pattern is tried before
\* the youtu.be pattern.
extract_video_id_watch_first(input_value) ==
    IF input_value = << >> THEN NoneStr
    ELSE LET s == strip(input_value)
         IN  IF fullmatch_id(s) THEN s
             ELSE IF search_id(s, PatWatch) # NoneStr THEN search_id(s, PatWatch)
             ELSE IF search_id(s, PatShort) # NoneStr THEN search_id(s, PatShort)
             ELSE IF search_id(s, PatEmbed) # NoneStr THEN search_id(s, PatEmbed)
             ELSE search_id(s, PatAny)

extract_video_id(input_value) ==
    IF input_value = << >> THEN NoneStr
    ELSE LET s == strip(input_value)
         IN  IF fullmatch_id(s) THEN s
             ELSE IF search_id(s, PatShort) # NoneStr THEN search_id(s, PatShort)
             ELSE IF search_id(s, PatWatch) # NoneStr THEN search_id(s, PatWatch)
             ELSE IF search_id(s, PatEmbed) # NoneStr THEN search_id(s, PatEmbed)
             ELSE search_id(s, PatAny)

----------------------------------------------------------------------------
(* JSON values and documents *)

\* A JSON value: null, an integer, a string, or a reference to a container
\* of the document's heap (field n holds the node index).
Null   == [k |-> "null", s |-> << >>, n |-> 0]
I(x)   == [k |-> "int",  s |-> << >>, n |-> x]
S(str) == [k |-> "str",  s |-> str,   n |-> 0]
R(id)  == [k |-> "ref",  s |-> << >>, n |-> id]

\* A container node: a dict (ordered key/value items) or a list (items whose
\* key is unused).
Dict(items) == [k |-> "dict", items |-> items]
List(vals)  == [k |-> "list", items |-> [i \in 1..Len(vals) |-> [key |-> "", val |-> vals[i]]]]
KV(key, val) == [key |-> key, val |-> val]

\* None as a return value of fetch_from_piped
NoneDoc == << >>

\* isinstance(v, dict), isinstance(v, list) for a value v of heap h
IsDict(h, v) == v.k = "ref" /\ h[v.n].k = "dict"
IsList(h, v) == v.k = "ref" /\ h[v.n].k = "list"

\* bool(v): None, 0, "" and empty containers are false
Truthy(h, v) ==
    CASE v.k = "null" -> FALSE
      [] v.k = "int"  -> v.n # 0
      [] v.k = "str"  -> v.s # << >>
      [] v.k = "ref"  -> h[v.n].items # << >>

\* h[id].get(key, default), id a dict node
GetD(h, id, key, default) ==
    LET items == h[id].items
        at == { i \in 1..Len(items) : items[i].key = key }
    IN  IF at = {} THEN default ELSE items[CHOOSE i \in at : TRUE].val

\* h[id].get(key)
Get(h, id, key) == GetD(h, id, key, Null)

\* key in h[id]
HasKey(h, id, key) == \E i \in 1..Len(h[id].items) : h[id].items[i].key = key

\* a or b
Or(h, a, b) == IF Truthy(h, a) THEN a ELSE b

\* The values of a container, in order
Values(h, id) == [i \in 1..Len(h[id].items) |-> h[id].items[i].val]

Audio == <<"a", "u", "d", "i", "o">>

----------------------------------------------------------------------------
(* select_best_audio_stream *)

\* Outcome of select_best_audio_stream: None, a reference to the chosen
\* entry of the document, or an exception that escapes the function.
RetNone     == [tag |-> "none",  val |-> Null]
RetFound(v) == [tag |-> "found", val |-> v]
RetRaise    == [tag |-> "raise", val |-> Null]

\* def score(s): return s.get("bitrate") or s.get("contentLength") or 0
score(h, s) ==
    Or(h, Or(h, Get(h, s.n, "bitrate"), Get(h, s.n, "contentLength")), I(0))

\* a > b is defined for two ints and for two strs; any other pair of the
\* scores the modelled documents hold (int, str) raises TypeError.
Comparable(a, b) == (a.k = "int" /\ b.k = "int") \/ (a.k = "str" /\ b.k = "str")

GT(a, b) == IF a.k = "int" THEN a.n > b.n ELSE StrGT(a.s, b.s)

\* max(candidates, key=score): the first candidate is the best so far; a
\* later one replaces it only when its score is strictly greater.
RECURSIVE MaxFrom(_, _, _, _)
MaxFrom(h, candidates, i, best) ==
    IF i > Len(candidates) THEN RetFound(best)
    ELSE IF ~Comparable(score(h, candidates[i]), score(h, best)) THEN RetRaise
    ELSE IF GT(score(h, candidates[i]), score(h, best))
         THEN MaxFrom(h, candidates, i + 1, candidates[i])
         ELSE MaxFrom(h, candidates, i + 1, best)

max_by_score(h, candidates) == MaxFrom(h, candidates, 2, candidates[1])

\* Faulty variant of Candidates1: the url test is left out.
Candidates1_no_url_test(h, arr) ==
    LET ok(v) == IsDict(h, v)
    IN  SelectSeq(Values(h, arr.n), ok)

\* 1) candidates = [s for s in audio_streams if isinstance(s, dict) and s.get("url")]
Candidates1(h, arr) ==
    LET ok(v) == IsDict(h, v) /\ Truthy(h, Get(h, v.n, "url"))
    IN  SelectSeq(Values(h, arr.n), ok)

\* 2) s.get("mimeType", "").startswith("audio") is evaluated for every dict
\* with a url; it raises AttributeError when mimeType is present and no str.
MimeRaises2(h, arr) ==
    \E i \in 1..Len(h[arr.n].items) :
        LET v == h[arr.n].items[i].val
        IN  /\ IsDict(h, v)
            /\ Truthy(h, Get(h, v.n, "url"))
            /\ GetD(h, v.n, "mimeType", S(<< >>)).k # "str"

\* Faulty variant of Candidates2: the mimeType test is left out, as in 1).
Candidates2_any_mime(h, arr) ==
    LET ok(v) == IsDict(h, v) /\ Truthy(h, Get(h, v.n, "url"))
    IN  SelectSeq(Values(h, arr.n), ok)

Candidates2(h, arr) ==
    LET ok(v) == /\ IsDict(h, v)
                 /\ Truthy(h, Get(h, v.n, "url"))
                 /\ StartsWith(GetD(h, v.n, "mimeType", S(<< >>)).s, Audio)
    IN  SelectSeq(Values(h, arr.n), ok)

FormatKeys == <<"adaptiveFormats", "streams", "formats">>

\* 3) is_audio_candidate(x): "yes", "no", or "raise" when the "in" test has
\* no meaning for the mimeType found (a non-zero int).
is_audio_candidate(h, x) ==
    IF ~IsDict(h, x) THEN "no"
    ELSE IF ~Truthy(h, Get(h, x.n, "url")) THEN "no"
    ELSE LET m == Or(h, GetD(h, x.n, "mimeType", S(<< >>)), S(<< >>))
         IN  CASE m.k = "str" -> IF Contains(m.s, Audio) THEN "yes" ELSE "no"
               [] m.k = "int" -> "raise"
               [] IsList(h, m) ->
                    IF \E i \in 1..Len(h[m.n].items) : h[m.n].items[i].val = S(Audio)
                    THEN "yes" ELSE "no"
               [] IsDict(h, m) -> IF HasKey(h, m.n, "audio") THEN "yes" ELSE "no"

\* The while loop over the stack: the top node is popped; a node seen before
\* is skipped; otherwise its values are examined in order, the first
\* candidate is returned, and the containers met before it are pushed.
RECURSIVE Scan(_, _, _)
Scan(h, stack, visited) ==
    IF stack = << >> THEN RetNone
    ELSE LET node == stack[Len(stack)]
             rest == SubSeq(stack, 1, Len(stack) - 1)
         IN  IF node \in visited THEN Scan(h, rest, visited)
             ELSE LET vs == Values(h, node)
                      hits == { i \in 1..Len(vs) : is_audio_candidate(h, vs[i]) # "no" }
                      isContainer(v) == v.k = "ref"
                      pushed == SelectSeq(vs, isContainer)
                  IN  IF hits # {}
                      THEN LET i == CHOOSE x \in hits : \A y \in hits : x <= y
                           IN  IF is_audio_candidate(h, vs[i]) = "raise"
                               THEN RetRaise ELSE RetFound(vs[i])
                      ELSE Scan(h, rest \o [j \in 1..Len(pushed) |-> pushed[j].n],
                                visited \cup {node})

Strategy3(h) == Scan(h, <<1>>, {})

\* for key in ("adaptiveFormats", "streams", "formats"): ...
RECURSIVE Strategy2(_, _)
Strategy2(h, ki) ==
    IF ki > Len(FormatKeys) THEN Strategy3(h)
    ELSE LET arr == Get(h, 1, FormatKeys[ki])
         IN  IF IsList(h, arr) /\ Truthy(h, arr)
             THEN IF MimeRaises2(h, arr) THEN RetRaise
                  ELSE IF Candidates2(h, arr) # << >>
                       THEN max_by_score(h, Candidates2(h, arr))
                       ELSE Strategy2(h, ki + 1)
             ELSE Strategy2(h, ki + 1)

\* audio_streams = data.get("audioStreams") or []: a falsy value becomes the
\* empty list, which the test "isinstance(..., list) and audio_streams" rejects.
select_best_audio_stream(h) ==
    LET audio_streams == Get(h, 1, "audioStreams")
    IN  IF /\ IsList(h, audio_streams)
           /\ Truthy(h, audio_streams)
           /\ Candidates1(h, audio_streams) # << >>
        THEN max_by_score(h, Candidates1(h, audio_streams))
        ELSE Strategy2(h, 1)

----------------------------------------------------------------------------
(* fetch_from_piped *)

\* urllib.parse.quote: letters, digits and "_.-~/" are kept, every other
\* character is percent-encoded.
QuoteChar(c) ==
    CASE c \in IdChars \cup {".", "/"} -> <<c>>
      [] c = "\t" -> <<"%", "0", "9">>
      [] c = "\n" -> <<"%", "0", "A">>
      [] c = " "  -> <<"%", "2", "0">>
      [] c = "!"  -> <<"%", "2", "1">>
      [] c = "&"  -> <<"%", "2", "6">>
      [] c = ":"  -> <<"%", "3", "A">>
      [] c = "="  -> <<"%", "3", "D">>
      [] c = "?"  -> <<"%", "3", "F">>

RECURSIVE quote(_)
quote(s) == IF s = << >> THEN << >> ELSE QuoteChar(Head(s)) \o quote(Tail(s))

\* The body of a 200 response: resp.json() raises (parsed = FALSE) or yields
\* a document.
Unparsable == [parsed |-> FALSE, doc |-> << >>]
Parsed(h)  == [parsed |-> TRUE, doc |-> h]

\* Faulty variant of Accepts: the "title" test is forgotten.
Accepts_no_title_test(body) ==
    /\ body.parsed
    /\ body.doc[1].k = "dict"

\* isinstance(data, dict) and ("title" in data)
Accepts(body) ==
    /\ body.parsed
    /\ body.doc[1].k = "dict"
    /\ HasKey(body.doc, 1, "title")

\* Faulty variant of next_attempt: range(MAX_INSTANCE_RETRY + 1).
next_attempt_one_more(b, a) ==
    IF a + 1 < MAX_INSTANCE_RETRY + 1 THEN <<b, a + 1>> ELSE <<b + 1, 0>>

\* Faulty variant of next_attempt: the two for loops nested the other way round
\* (every instance once per round of attempts).
next_attempt_round_robin(b, a) ==
    IF b < Len(PIPED_INSTANCES) THEN <<b + 1, a>>
    ELSE IF a + 1 < MAX_INSTANCE_RETRY THEN <<1, a + 1>>
    ELSE <<b + 1, 0>>

\* Faulty variant of next_attempt: one attempt counter for all instances,
\* which is not reset when the next instance is entered.
next_attempt_shared_budget(b, a) ==
    IF a + 1 < MAX_INSTANCE_RETRY THEN <<b, a + 1>> ELSE <<b + 1, a>>

\* Faulty variant of next_attempt: a failed attempt ends the inner loop (break).
next_attempt_break(b, a) == <<b + 1, 0>>

\* The loop position after an attempt that ends by falling off the loop body
\* (non-200, rejected 200) or by "continue" (asyncio.TimeoutError): the next
\* attempt of the inner for, or the next instance when the range is used up.
next_attempt(b, a) ==
    IF a + 1 < MAX_INSTANCE_RETRY THEN <<b, a + 1>> ELSE <<b + 1, 0>>

\* Faulty variant of next_instance: "continue" where the code has "break".
next_instance_continue(b, a) == next_attempt(b, a)

\* The loop position after "break" (any other exception): the next instance.
next_instance(b, a) == <<b + 1, 0>>

\* Faulty variant of Exhausted: the last instance is never tried.
Exhausted_early(pos) == pos[1] >= Len(PIPED_INSTANCES)

\* The for loop over PIPED_INSTANCES is over when every instance was used.
Exhausted(pos) == pos[1] > Len(PIPED_INSTANCES)

\* The request of an attempt: to instance base, for the path
\* /api/v1/streams/{quote(video_id)}; kind is how the attempt ends.
Request(kind) == [inst |-> base, res |-> kind]

----------------------------------------------------------------------------
(* download_audio *)

NoResult ==
    [video_id |-> NoneStr, title |-> Null, duration |-> Null, thumbnail |-> Null,
     audio_url |-> Null, bitrate |-> Null, mime_type |-> Null, source_instance |-> Null]

\* The JSON body of the 200 answer, from the accepted document h and the
\* chosen entry a.
Normalize(vid, h, a) ==
    [video_id  |-> vid,
     title     |-> Or(h, Or(h, Get(h, 1, "title"), Get(h, 1, "videoTitle")), S(<< >>)),
     duration  |-> Get(h, 1, "duration"),
     thumbnail |-> Or(h, Or(h, Get(h, 1, "thumbnailUrl"), Get(h, 1, "thumbnail")),
                      Get(h, 1, "videoThumbnails")),
     audio_url |-> Get(h, a.n, "url"),
     bitrate   |-> Or(h, Or(h, Get(h, a.n, "bitrate"), Get(h, a.n, "contentLength")), Null),
     mime_type |-> Or(h, Or(h, Get(h, a.n, "mimeType"), Get(h, a.n, "type")), Null),
     source_instance |-> Or(h, Get(h, 1, "source"), Null)]

\* Faulty variant of StatusOf: a response without audio candidate is answered
\* like a failed fetch.
StatusOf_none_as_502(sel) ==
    CASE sel.tag = "raise" -> 500
      [] sel.tag = "none"  -> 502
      [] sel.tag = "found" -> 200

\* An exception that escapes the handler is answered 500 by the framework.
StatusOf(sel) ==
    CASE sel.tag = "raise" -> 500
      [] sel.tag = "none"  -> 404
      [] sel.tag = "found" -> 200

\* fetch_from_piped returned the document h: lines 179-200.
Respond(h) ==
    LET sel == select_best_audio_stream(h)
    IN  /\ data' = h
        /\ audio' = sel
        /\ status' = StatusOf(sel)
        /\ result' = IF sel.tag = "found" THEN Normalize(video_id, h, sel.val) ELSE NoResult
        /\ pc' = "done"

\* An attempt failed and the loop moves to position pos; when the instances
\* are used up fetch_from_piped returns None and download_audio raises 502.
Fail(kind, pos) ==
    /\ log' = Append(log, Request(kind))
    /\ sent' = sent \cup {quote(video_id)}
    /\ elapsed' = elapsed + REQUEST_TIMEOUT
    /\ IF Exhausted(pos)
       THEN /\ pc' = "done"
            /\ status' = 502
            /\ UNCHANGED <<base, attempt>>
       ELSE /\ base' = pos[1]
            /\ attempt' = pos[2]
            /\ UNCHANGED <<pc, status>>
    /\ UNCHANGED <<url, video_id, data, audio, result, suspended>>

----------------------------------------------------------------------------
(* Documents the mirrors answer with *)

\* Longest list of stream entries in a generated document
MaxStreams == 2

\* A key left out of an entry
Absent == [k |-> "absent", s |-> << >>, n |-> 0]

Opt(key, v) == IF v = Absent THEN << >> ELSE <<KV(key, v)>>

\* An element of a list: a dict with the given fields, or a scalar.
Entry(u, b, c, m) ==
    [dict |-> TRUE, val |-> Null,
     items |-> Opt("url", u) \o Opt("bitrate", b) \o Opt("contentLength", c) \o Opt("mimeType", m)]
Scalar(v) == [dict |-> FALSE, val |-> v, items |-> << >>]

RECURSIVE EntriesBefore(_, _)
EntriesBefore(lists, i) ==
    IF i <= 1 THEN 0 ELSE EntriesBefore(lists, i - 1) + Len(lists[i - 1].entries)

RECURSIVE EntryNodes(_, _)
EntryNodes(lists, i) ==
    IF i > Len(lists) THEN << >>
    ELSE [j \in 1..Len(lists[i].entries) |-> Dict(lists[i].entries[j].items)]
         \o EntryNodes(lists, i + 1)

\* The document {top..., key_1: [entries_1], key_2: [entries_2], ...}: node 1
\* is the root, nodes 2..1+L the lists, then one node per entry (the node of
\* a scalar element is not referenced).
MkDoc(top, lists) ==
    LET L == Len(lists)
        first(i) == 1 + L + EntriesBefore(lists, i)
        item(i, j) == IF lists[i].entries[j].dict THEN R(first(i) + j)
                      ELSE lists[i].entries[j].val
    IN  << Dict(top \o [i \in 1..L |-> KV(lists[i].key, R(1 + i))]) >>
        \o [i \in 1..L |-> List([j \in 1..Len(lists[i].entries) |-> item(i, j)])]
        \o EntryNodes(lists, 1)

Streams(key, entries) == [key |-> key, entries |-> entries]

T         == <<"T">>
V         == <<"V">>
U1        == <<"u", "1">>
U2        == <<"u", "2">>
AudioMp4  == <<"a", "u", "d", "i", "o", "/", "m", "p", "4">>
VideoMp4  == <<"v", "i", "d", "e", "o", "/", "m", "p", "4">>
XAudio    == <<"x", "-", "a", "u", "d", "i", "o">>
B64000    == <<"6", "4", "0", "0", "0">>
B128000   == <<"1", "2", "8", "0", "0", "0">>

Title == <<KV("title", S(T))>>

\* The documents of the resolution model: one per shape the handler
\* distinguishes.
DocGood ==
    MkDoc(Title \o <<KV("duration", I(212)), KV("thumbnailUrl", S(U2))>>,
          <<Streams("audioStreams", <<Entry(S(U1), I(64), Absent, S(AudioMp4)),
                                      Entry(S(U2), I(128), Absent, S(AudioMp4))>>)>>)
DocNoMime ==
    MkDoc(Title, <<Streams("audioStreams", <<Entry(S(U1), I(160), Absent, Absent)>>)>>)
DocVideoOnly ==
    MkDoc(Title, <<Streams("audioStreams", <<Entry(S(U1), Absent, I(500), S(VideoMp4))>>)>>)
DocTitleOnly == MkDoc(Title, << >>)
DocAdaptive ==
    MkDoc(<<KV("title", S(<< >>)), KV("videoTitle", S(V)), KV("source", S(U2))>>,
          <<Streams("adaptiveFormats", <<Entry(S(U1), S(B128000), Absent, S(VideoMp4)),
                                         Entry(S(U2), S(B64000), Absent, S(AudioMp4))>>)>>)
DocNullMime ==
    MkDoc(Title, <<Streams("adaptiveFormats", <<Entry(S(U1), Absent, Absent, Null)>>)>>)
DocScan ==
    MkDoc(Title, <<Streams("related", <<Scalar(S(U1)), Entry(S(U2), Absent, Absent, S(XAudio))>>)>>)
DocNoUrl ==
    MkDoc(Title, <<Streams("formats", <<Entry(Absent, I(128), Absent, S(AudioMp4))>>)>>)

\* Documents that parse but are rejected by the basic validation
DocNoTitle == MkDoc(<<KV("error", S(V))>>, << >>)
DocList    == << List(<< >>) >>

Docs == { DocGood, DocNoMime, DocVideoOnly, DocTitleOnly, DocAdaptive,
          DocNullMime, DocScan, DocNoUrl }

Bodies == { Unparsable, Parsed(DocNoTitle), Parsed(DocList) } \cup { Parsed(d) : d \in Docs }

----------------------------------------------------------------------------
(* Inputs of download_audio *)

ID1 == <<"B", "d", "d", "P", "6", "P", "Y", "o", "2", "g", "s">>
ID2 == <<"d", "Q", "w", "4", "w", "9", "W", "g", "X", "c", "Q">>

Https == <<"h", "t", "t", "p", "s", ":", "/", "/">>

InEmpty == << >>
InBad   == <<"n", "o", "t", " ", "a", " ", "u", "r", "l">>
InShort == Https \o <<"y", "o", "u", "t", "u", ".", "b", "e", "/">> \o ID1
InRaw   == <<" ">> \o ID2 \o <<"\n">>

\* The inputs of the resolution model: two that hold no id, one that does.
Inputs == { InEmpty, InBad, InShort }

----------------------------------------------------------------------------
(* The resolution as a state machine *)

\* A call of download_audio with parameter u, before its first statement
Call(u) ==
    /\ url = u
    /\ pc = "start"
    /\ video_id = NoneStr
    /\ base = 1
    /\ attempt = 0
    /\ log = << >>
    /\ sent = {}
    /\ data = NoneDoc
    /\ audio = RetNone
    /\ status = 0
    /\ result = NoResult
    /\ elapsed = 0

\* No other call is in flight.
Alone == suspended = << >>

Init == Alone /\ \E u \in Inputs : Call(u)

\* download_audio, lines 171-173, and the entry of fetch_from_piped's loops
Extract ==
    /\ pc = "start"
    /\ video_id' = extract_video_id(url)
    /\ IF extract_video_id(url) = NoneStr
       THEN pc' = "done" /\ status' = 400
       ELSE pc' = "fetch" /\ status' = 0
    /\ UNCHANGED <<url, base, attempt, log, sent, data, audio, result, elapsed, suspended>>

\* The attempt ends with asyncio.TimeoutError: continue.  (A timeout raised
\* while the body is read is caught by the inner "except Exception: pass";
\* the loop body then ends, which leads to the same next iteration.)
AttemptTimeout ==
    /\ pc = "fetch"
    /\ Fail("timeout", next_attempt(base, attempt))

\* The attempt ends with another exception (connection, DNS, TLS): break
AttemptUnreachable ==
    /\ pc = "fetch"
    /\ Fail("unreachable", next_instance(base, attempt))

\* resp.status != 200: nothing is done, the loop body ends
AttemptNon200 ==
    /\ pc = "fetch"
    /\ Fail("non200", next_attempt(base, attempt))

\* resp.status == 200 and the body is rejected: resp.json() raises (pass) or
\* the validation fails; the loop body ends
AttemptMalformed ==
    /\ pc = "fetch"
    /\ \E body \in Bodies :
          /\ ~Accepts(body)
          /\ Fail("malformed", next_attempt(base, attempt))

\* resp.status == 200 and the body passes the validation: return data, and
\* download_audio answers
Accepted(body) ==
    /\ pc = "fetch"
    /\ Accepts(body)
    /\ log' = Append(log, Request("accepted"))
    /\ sent' = sent \cup {quote(video_id)}
    /\ elapsed' = elapsed + REQUEST_TIMEOUT
    /\ Respond(body.doc)
    /\ UNCHANGED <<url, video_id, base, attempt, suspended>>

AttemptAccepted == \E body \in Bodies : Accepted(body)

Next ==
    \/ Extract
    \/ AttemptTimeout
    \/ AttemptUnreachable
    \/ AttemptNon200
    \/ AttemptMalformed
    \/ AttemptAccepted

Spec == Init /\ [][Next]_vars

\* Each attempt ends within REQUEST_TIMEOUT (aiohttp.ClientTimeout(total=...)),
\* and nothing else suspends the handler: every enabled step is taken.
LiveSpec == Spec /\ WF_vars(Next)

----------------------------------------------------------------------------
(* Properties of the resolution *)

N == Len(PIPED_INSTANCES)

Done == pc = "done"

\* Requests of the log sent to instance b
RequestsTo(b) == { i \in 1..Len(log) : log[i].inst = b }

\* An accepted response ended the search.
HasAccepted == \E i \in 1..Len(log) : log[i].res = "accepted"

\* C1: a second request to the same instance follows only an attempt that
\* timed out; after a non-200 status or a rejected 200 body the next request,
\* if any, goes to the next instance.
C1_RetryOnlyAfterTimeout ==
    \A i \in 1..(Len(log) - 1) :
        /\ log[i + 1].inst = log[i].inst => log[i].res = "timeout"
        /\ log[i].res \in {"non200", "malformed"} => log[i + 1].inst = log[i].inst + 1

\* C2 (as claimed): a 200 response from which no audio candidate can be
\* extracted does not end the search while untried instances remain; so a
\* 404 is only answered when the last instance was reached.
C2_StopsAtFirstUsable ==
    (data # NoneDoc /\ audio.tag # "found") => log[Len(log)].inst = N

\* C2 (amended): the search stops at, and returns, the first 200 response
\* that is a mapping containing "title", whether or not an audio candidate
\* can be extracted from it; when none can, the answer is 404 and the
\* instances after it are not tried.
C2_StopsAtFirstTitled ==
    /\ HasAccepted <=> data # NoneDoc
    /\ data # NoneDoc =>
          /\ Done
          /\ log[Len(log)].res = "accepted"
          /\ \A i \in 1..(Len(log) - 1) : log[i].res # "accepted"
          /\ data[1].k = "dict"
          /\ HasKey(data, 1, "title")
          /\ audio = select_best_audio_stream(data)
          /\ audio.tag = "none" => status = 404

C2_Witness ==
    /\ Done
    /\ status = 404
    /\ data = DocTitleOnly
    /\ log[Len(log)].inst = 1

\* C3: when instance 1 times out on each of its MAX_INSTANCE_RETRY attempts
\* and instance 2 answers its first request with a response that holds an
\* audio candidate, the requests are exactly 3 to instance 1 then 1 to
\* instance 2, and the answer is 200 with instance 2's title and the url,
\* bitrate and mime type of the best stream of that response.
TimeoutsThenValid ==
    /\ Done
    /\ \A i \in RequestsTo(1) : log[i].res = "timeout"
    /\ \E i \in RequestsTo(2) :
          /\ log[i].res = "accepted"
          /\ \A j \in RequestsTo(2) : i <= j
    /\ audio.tag = "found"

C3_SecondMirrorWins ==
    TimeoutsThenValid =>
        /\ log = [i \in 1..(MAX_INSTANCE_RETRY + 1) |->
                     IF i <= MAX_INSTANCE_RETRY
                     THEN [inst |-> 1, res |-> "timeout"]
                     ELSE [inst |-> 2, res |-> "accepted"]]
        /\ status = 200
        /\ audio = select_best_audio_stream(data)
        /\ result.title = Or(data, Or(data, Get(data, 1, "title"), Get(data, 1, "videoTitle")), S(<< >>))
        /\ result.audio_url = Get(data, audio.val.n, "url")
        /\ result.bitrate = Or(data, score(data, audio.val), Null)
        /\ result.mime_type = Or(data, Or(data, Get(data, audio.val.n, "mimeType"),
                                          Get(data, audio.val.n, "type")), Null)

C3_Witness ==
    /\ TimeoutsThenValid
    /\ data = DocGood
    /\ result.audio_url = S(U2)
    /\ result.bitrate = I(128)

\* C4: when every attempt on every instance fails, fetch_from_piped returns
\* None, the answer is 502, and no request follows the last attempt on the
\* last instance.
LastAttemptOfLastInstance(i) ==
    /\ log[i].inst = N
    /\ \/ log[i].res = "unreachable"
       \/ Cardinality({ j \in RequestsTo(N) : j <= i }) = MAX_INSTANCE_RETRY

C4_AllMirrorsExhausted ==
    /\ (Done /\ video_id # NoneStr /\ ~HasAccepted) =>
          /\ data = NoneDoc
          /\ status = 502
          /\ result = NoResult
    /\ status = 502 =>
          /\ ~HasAccepted
          /\ \A b \in 1..N : RequestsTo(b) # {}
          /\ LastAttemptOfLastInstance(Len(log))
    /\ \A i \in 1..Len(log) : LastAttemptOfLastInstance(i) => i = Len(log)

C4_Witness ==
    /\ status = 502
    /\ \E i, j, k \in 1..Len(log) :
          /\ log[i].res = "timeout"
          /\ log[j].res = "non200"
          /\ log[k].res = "malformed"
    /\ log[Len(log)].res = "unreachable"

\* C5: every resolution ends in exactly one of 400, 502, 404 and 200: 400
\* iff no id was extracted, 502 iff an id was extracted and no response was
\* accepted, 404 iff a response was accepted and holds no audio candidate,
\* 200 with a result otherwise.
C5_FourOutcomes ==
    Done =>
        /\ status \in {400, 502, 404, 200}
        /\ status = 400 <=> video_id = NoneStr
        /\ status = 502 <=> (video_id # NoneStr /\ data = NoneDoc)
        /\ status = 404 <=> (data # NoneDoc /\ audio.tag = "none")
        /\ status = 200 <=> (data # NoneDoc /\ audio.tag = "found" /\ result # NoResult)

\* C6: the instances are contacted in the order of PIPED_INSTANCES, starting
\* with the first and skipping none; no instance is contacted again after a
\* later one was; and no request follows an accepted response.
C6_PriorityOrder ==
    /\ log # << >> => log[1].inst = 1
    /\ \A i \in 1..(Len(log) - 1) :
          /\ log[i].inst <= log[i + 1].inst
          /\ log[i + 1].inst <= log[i].inst + 1
          /\ log[i].res # "accepted"

C6_Witness ==
    /\ Len(log) >= 4
    /\ log[Len(log)].inst = N
    /\ log[Len(log)].res = "accepted"
    /\ \E i \in RequestsTo(2) : i + 1 \in RequestsTo(2)

\* C7: after an attempt that ends in a connection, DNS or TLS failure no
\* further attempt is made on that instance: the next request, if any, goes
\* to the next instance, however many attempts were left.
C7_UnreachableSkips ==
    \A i \in 1..(Len(log) - 1) :
        log[i].res = "unreachable" => log[i + 1].inst = log[i].inst + 1

C7_Witness ==
    /\ Len(log) >= 2
    /\ log[1] = [inst |-> 1, res |-> "unreachable"]
    /\ log[2].inst = 2

\* C8: every resolution terminates; it issues at most MAX_INSTANCE_RETRY
\* requests to each instance, at most MAX_INSTANCE_RETRY * N in all, and
\* waits on mirrors no longer than REQUEST_TIMEOUT * MAX_INSTANCE_RETRY * N.
RequestsBounded ==
    /\ Len(log) <= MAX_INSTANCE_RETRY * N
    /\ \A b \in 1..N : Cardinality(RequestsTo(b)) <= MAX_INSTANCE_RETRY
    /\ \A i \in 1..Len(log) : log[i].inst \in 1..N
    /\ elapsed <= REQUEST_TIMEOUT * MAX_INSTANCE_RETRY * N

C8_BoundedAndTerminates == []RequestsBounded /\ <>Done

C8_Witness ==
    /\ Done
    /\ Len(log) = MAX_INSTANCE_RETRY * N
    /\ elapsed = REQUEST_TIMEOUT * MAX_INSTANCE_RETRY * N

\* C17: when extract_video_id fails the resolution ends at once with 400 and
\* has issued no mirror request; when select_best_audio_stream finds no
\* candidate in the accepted response the resolution ends at once with 404,
\* the accepted request being its last; and nothing is done after either
\* answer.
C17_FailuresNotRetried ==
    /\ (pc # "start" /\ video_id = NoneStr) =>
          /\ Done
          /\ status = 400
          /\ log = << >>
          /\ sent = {}
          /\ elapsed = 0
    /\ (data # NoneDoc /\ audio.tag = "none") =>
          /\ Done
          /\ status = 404
          /\ log[Len(log)].res = "accepted"
          /\ Cardinality({ i \in 1..Len(log) : log[i].res = "accepted" }) = 1
    /\ status \in {400, 404} => (Done /\ ~ENABLED Next)

C17_Witness ==
    /\ status = 404
    /\ data = DocNoUrl
    /\ Len(log) = 2
    /\ log[1].res = "timeout"

\* The number of requests made to instance b among the first i of the log
RequestsUpTo(b, i) == Cardinality({ j \in RequestsTo(b) : j <= i })

\* C19: after a timeout that is not the instance's third attempt the next
\* request goes to the same instance, and when that instance then answers
\* with a valid response the response is returned and no later instance is
\* contacted; the attempts are counted per instance: the attempts used on
\* the current instance are the requests made to it, whatever happened on
\* the instances before, and an instance left behind after timeouts only
\* has had all MAX_INSTANCE_RETRY attempts.
C19_TimeoutAbsorbed ==
    /\ \A i \in 1..(Len(log) - 1) :
          (log[i].res = "timeout" /\ RequestsUpTo(log[i].inst, i) < MAX_INSTANCE_RETRY)
              => log[i + 1].inst = log[i].inst
    /\ (log # << >> /\ log[Len(log)].res = "accepted") =>
          /\ data # NoneDoc
          /\ Accepts(Parsed(data))
          /\ \A b \in 1..N : b > log[Len(log)].inst => RequestsTo(b) = {}
    /\ pc = "fetch" => attempt = Cardinality(RequestsTo(base))
    /\ \A b \in 1..N :
          (/\ \A i \in RequestsTo(b) : log[i].res = "timeout"
           /\ \/ \E i \in 1..Len(log) : log[i].inst > b
              \/ status = 502)
              => Cardinality(RequestsTo(b)) = MAX_INSTANCE_RETRY

\* Three timeouts on the first instance, two on the second, and then the
\* second answers.
C19_Witness ==
    /\ status = 200
    /\ Len(log) = 2 * MAX_INSTANCE_RETRY
    /\ \A i \in 1..(Len(log) - 1) : log[i].res = "timeout"
    /\ log[Len(log)] = [inst |-> 2, res |-> "accepted"]
    /\ RequestsTo(3) = {}

----------------------------------------------------------------------------
(* select_best_audio_stream on generated documents *)

SeqsUpTo(set, n) == UNION { [1..len -> set] : len \in 0..n }

\* Entries that differ in what score() reads
ScoreEntries ==
    { Entry(S(U1), b, c, S(AudioMp4)) :
         b \in {Absent, Null, I(0), I(64), I(128), S(B64000), S(B128000)},
         c \in {Absent, I(500)} }
    \cup { Entry(Absent, I(128), Absent, S(AudioMp4)) }

\* Elements that differ in what the candidate tests read
MimeEntries ==
    { Entry(u, b, Absent, m) :
         u \in {S(<< >>), S(U1)},
         b \in {Absent, I(128)},
         m \in {Absent, Null, I(1), S(AudioMp4), S(VideoMp4), S(XAudio)} }
    \cup { Scalar(S(AudioMp4)) }

ListKeys == {"audioStreams", "adaptiveFormats", "streams", "formats", "related"}

KeyPairs == { ks \in ListKeys \X ListKeys : ks[1] # ks[2] }

\* The first request is answered 200 with a generated document: one list of
\* entries that differ in their scores,
AcceptScoreList ==
    /\ pc = "fetch"
    /\ \E key \in {"audioStreams", "adaptiveFormats"}, es \in SeqsUpTo(ScoreEntries, MaxStreams) :
          Accepted(Parsed(MkDoc(Title, <<Streams(key, es)>>)))

\* one list of elements that differ in url and mimeType,
AcceptMimeList ==
    /\ pc = "fetch"
    /\ \E key \in ListKeys, es \in SeqsUpTo(MimeEntries, MaxStreams) :
          Accepted(Parsed(MkDoc(Title, <<Streams(key, es)>>)))

\* or two lists of one element each under different keys.
AcceptTwoLists ==
    /\ pc = "fetch"
    /\ \E ks \in KeyPairs, e1 \in MimeEntries, e2 \in MimeEntries :
          Accepted(Parsed(MkDoc(Title, <<Streams(ks[1], <<e1>>), Streams(ks[2], <<e2>>)>>)))

\* Elements that differ in their url: missing, null, empty, zero, a number,
\* a string
UrlEntries ==
    { Entry(u, Absent, Absent, S(AudioMp4)) :
         u \in {Absent, Null, S(<< >>), I(0), I(7), S(U1)} }

\* or one list of elements that differ in their url, under a key of each
\* strategy.
AcceptUrlList ==
    /\ pc = "fetch"
    /\ \E key \in {"audioStreams", "formats", "related"}, es \in SeqsUpTo(UrlEntries, MaxStreams) :
          Accepted(Parsed(MkDoc(Title, <<Streams(key, es)>>)))

InitSelect == Alone /\ Call(InRaw)

NextSelect ==
    \/ Extract
    \/ AcceptScoreList
    \/ AcceptMimeList
    \/ AcceptTwoLists
    \/ AcceptUrlList

\* A resolution whose first mirror answers with any generated document
SelectSpec == InitSelect /\ [][NextSelect]_vars

----------------------------------------------------------------------------
(* Properties of select_best_audio_stream *)

\* The candidates of the audioStreams strategy in the accepted document
StreamCandidates ==
    LET a == Get(data, 1, "audioStreams")
    IN  IF IsList(data, a) THEN Candidates1(data, a) ELSE << >>

\* The score as the ranking rule states it: the bitrate whenever the entry
\* has one, the contentLength only when it has no bitrate, else 0.
StatedScore(h, s) ==
    IF HasKey(h, s.n, "bitrate") THEN Get(h, s.n, "bitrate")
    ELSE IF HasKey(h, s.n, "contentLength") THEN Get(h, s.n, "contentLength")
    ELSE I(0)

\* C9: within a candidate set (here: the audioStreams entries with a url,
\* all scores being numbers) the entry returned is the first one whose score
\* (bitrate if present, else contentLength, else 0) is maximal.
C9_MaxScoreFirstWins ==
    LET cs == StreamCandidates
    IN  (/\ Done
         /\ data # NoneDoc
         /\ cs # << >>
         /\ \A i \in 1..Len(cs) : StatedScore(data, cs[i]).k = "int")
        => /\ audio.tag = "found"
           /\ \E i \in 1..Len(cs) :
                 /\ audio.val = cs[i]
                 /\ \A j \in 1..Len(cs) :
                       StatedScore(data, cs[j]).n <= StatedScore(data, cs[i]).n
                 /\ \A j \in 1..(i - 1) :
                       StatedScore(data, cs[j]).n < StatedScore(data, cs[i]).n

\* x is an element of the list data["audioStreams"]
InAudioStreams(h, x) ==
    LET a == Get(h, 1, "audioStreams")
    IN  IsList(h, a) /\ \E i \in 1..Len(h[a.n].items) : h[a.n].items[i].val = x

\* The dict x has a mimeType that is a string containing "audio"
HasAudioMime(h, x) ==
    /\ Get(h, x.n, "mimeType").k = "str"
    /\ Contains(Get(h, x.n, "mimeType").s, Audio)

\* Some dict of the document has an audio-indicating mimeType.
SomeAudioMime(h) ==
    \E id \in 1..Len(h) : h[id].k = "dict" /\ HasAudioMime(h, R(id))

\* C10 (as claimed): every entry returned has a non-empty url and an
\* audio-indicating mimeType (beginning with "audio" for an audioStreams
\* entry); a response in which no entry has an audio-indicating mimeType
\* yields None and the answer 404.
C10_ReturnedEntryIsAudio ==
    (Done /\ data # NoneDoc) =>
        /\ audio.tag = "found" =>
              /\ Truthy(data, Get(data, audio.val.n, "url"))
              /\ HasAudioMime(data, audio.val)
              /\ InAudioStreams(data, audio.val) =>
                    StartsWith(Get(data, audio.val.n, "mimeType").s, Audio)
        /\ ~SomeAudioMime(data) => (audio.tag = "none" /\ status = 404)

\* C10 (amended): every entry returned is a mapping with a non-empty url; it
\* has an audio-indicating mimeType unless it is an element of audioStreams,
\* whose entries are not filtered by mimeType.  A response in which no entry
\* has an audio-indicating mimeType and audioStreams holds no entry with a
\* url yields no entry: None and the answer 404, or an exception out of the
\* mimeType test and the answer 500.
C10_ReturnedEntryHasUrl ==
    (Done /\ data # NoneDoc) =>
        /\ audio.tag = "found" =>
              /\ IsDict(data, audio.val)
              /\ Truthy(data, Get(data, audio.val.n, "url"))
              /\ InAudioStreams(data, audio.val) \/ HasAudioMime(data, audio.val)
        /\ (~SomeAudioMime(data) /\ StreamCandidates = << >>) =>
              /\ audio.tag # "found"
              /\ status = IF audio.tag = "none" THEN 404 ELSE 500

C10_Witness ==
    /\ Done
    /\ audio.tag = "found"
    /\ InAudioStreams(data, audio.val)
    /\ Get(data, audio.val.n, "mimeType") = S(VideoMp4)
    /\ status = 200

\* C13: a 200 result is complete: its video_id is the id extract_video_id
\* produced from the input, and that id, unchanged by the quoting, is the one
\* in the URL of every mirror request of the resolution; its audio_url is the
\* url of the chosen entry and is present and non-empty (not null, not "",
\* not 0).
C13_ResultComplete ==
    status = 200 =>
        /\ result.video_id = extract_video_id(url)
        /\ result.video_id = video_id
        /\ fullmatch_id(result.video_id)
        /\ log # << >>
        /\ sent = {result.video_id}
        /\ audio.tag = "found"
        /\ result.audio_url = Get(data, audio.val.n, "url")
        /\ result.audio_url # Null
        /\ Truthy(data, result.audio_url)

C13_Witness ==
    /\ status = 200
    /\ url # video_id
    /\ result.audio_url = I(7)
    /\ IsList(data, Get(data, 1, "audioStreams"))
    /\ Len(StreamCandidates) < Len(data[Get(data, 1, "audioStreams").n].items)

----------------------------------------------------------------------------
(* The tag of a successful result *)

\* The entries of PIPED_INSTANCES as JSON string values
InstanceUrls ==
    << <<"h", "t", "t", "p", "s", ":", "/", "/", "p", "i", "p", "e", "d", ".",
         "v", "i", "d", "e", "o">>,
       <<"h", "t", "t", "p", "s", ":", "/", "/", "y", "e", "w", "t", "u", ".", "b", "e">>,
       <<"h", "t", "t", "p", "s", ":", "/", "/", "y", "t", ".", "a", "r", "t", "e", "m",
         "i", "s", "l", "e", "n", "a", ".", "e", "u">> >>

\* The JSON values that identify instance b: its base URL, or its position in
\* PIPED_INSTANCES counted from 1 or from 0.
IdentifiesInstance(v, b) == v \in { S(InstanceUrls[b]), I(b), I(b - 1) }

\* C11: the source_instance field of a 200 answer identifies the instance
\* whose response was accepted in that resolution.
C11_SourceIsAcceptingInstance ==
    status = 200 => IdentifiesInstance(result.source_instance, log[Len(log)].inst)

----------------------------------------------------------------------------
(* Calls in flight together *)

\* The frame of the running call: download_audio's parameter and locals, the
\* locals of the fetch_from_piped it awaits, and the call's history.
Frame ==
    [url |-> url, pc |-> pc, video_id |-> video_id, base |-> base, attempt |-> attempt,
     log |-> log, sent |-> sent, data |-> data, audio |-> audio, status |-> status,
     result |-> result, elapsed |-> elapsed]

\* The frame of a call of download_audio with parameter u, before its first
\* statement
NewFrame(u) ==
    [url |-> u, pc |-> "start", video_id |-> NoneStr, base |-> 1, attempt |-> 0,
     log |-> << >>, sent |-> {}, data |-> NoneDoc, audio |-> RetNone, status |-> 0,
     result |-> NoResult, elapsed |-> 0]

\* Faulty variant of Resumed: the attempt counter is kept at module level, so
\* a resumed call finds the value the call that ran last left there.
Resumed_module_level_counter(f) == [f EXCEPT !.attempt = attempt]

\* The frame a suspended call continues with: base and attempt are locals of
\* the coroutine, so it finds them as it left them.
Resumed(f) == f

\* The running call waits at an await (or has answered) and the event loop
\* continues the i-th suspended call, which has not answered yet.
Switch(i) ==
    /\ suspended[i].pc # "done"
    /\ suspended' = [suspended EXCEPT ![i] = Frame]
    /\ LET f == Resumed(suspended[i])
       IN  /\ url' = f.url
           /\ pc' = f.pc
           /\ video_id' = f.video_id
           /\ base' = f.base
           /\ attempt' = f.attempt
           /\ log' = f.log
           /\ sent' = f.sent
           /\ data' = f.data
           /\ audio' = f.audio
           /\ status' = f.status
           /\ result' = f.result
           /\ elapsed' = f.elapsed

SwitchCall == \E i \in 1..Len(suspended) : Switch(i)

\* A mirror answers 200 with a body that passes the validation; one body
\* with an audio candidate and one without.
AttemptAcceptedEither == \E d \in {DocGood, DocTitleOnly} : Accepted(Parsed(d))

\* Two calls arrive together, with different inputs.
InitConcurrent ==
    /\ Call(InShort)
    /\ suspended = <<NewFrame(InRaw)>>

NextConcurrent ==
    \/ Extract
    \/ AttemptTimeout
    \/ AttemptUnreachable
    \/ AttemptAcceptedEither
    \/ SwitchCall

ConcurrentSpec == InitConcurrent /\ [][NextConcurrent]_vars

\* The frames of all calls in flight
Frames == {Frame} \cup { suspended[i] : i \in 1..Len(suspended) }

\* fetch_from_piped and the rest of download_audio run without interruption
\* from loop position pos on the answers i, i+1, ... (doc being the body of
\* an accepted answer): the instances contacted, the status (0 when the
\* answers end before the call does) and the result.
RECURSIVE AloneFrom(_, _, _, _, _)
AloneFrom(vid, answers, doc, pos, i) ==
    IF Exhausted(pos) THEN [insts |-> << >>, status |-> 502, result |-> NoResult]
    ELSE IF i > Len(answers) THEN [insts |-> << >>, status |-> 0, result |-> NoResult]
    ELSE IF answers[i] = "accepted"
         THEN LET sel == select_best_audio_stream(doc)
              IN  [insts |-> <<pos[1]>>,
                   status |-> StatusOf(sel),
                   result |-> IF sel.tag = "found" THEN Normalize(vid, doc, sel.val)
                              ELSE NoResult]
         ELSE LET then == AloneFrom(vid, answers, doc,
                                    IF answers[i] = "unreachable"
                                    THEN next_instance(pos[1], pos[2])
                                    ELSE next_attempt(pos[1], pos[2]),
                                    i + 1)
              IN  [then EXCEPT !.insts = <<pos[1]>> \o then.insts]

\* download_audio(u) run alone against the given answers
RunAlone(u, answers, doc) ==
    IF extract_video_id(u) = NoneStr
    THEN [insts |-> << >>, status |-> 400, result |-> NoResult]
    ELSE AloneFrom(extract_video_id(u), answers, doc, <<1, 0>>, 1)

\* C12: however the calls in flight interleave at their awaits, each call
\* contacts the instances as it would alone against the answers it got (so
\* from the first instance on, with its own three attempts per instance),
\* and once it has answered, its status and result are those of the run
\* alone.
C12_CallsIndependent ==
    \A f \in Frames :
        f.pc # "start" =>
            LET alone == RunAlone(f.url, [i \in 1..Len(f.log) |-> f.log[i].res], f.data)
            IN  /\ [i \in 1..Len(f.log) |-> f.log[i].inst] = alone.insts
                /\ f.log # << >> => f.log[1].inst = 1
                /\ f.video_id = extract_video_id(f.url)
                /\ f.pc = "done" <=> alone.status # 0
                /\ f.pc = "done" => (f.status = alone.status /\ f.result = alone.result)

\* Both calls are under way, each with attempts behind it on a different
\* instance, and then one of them has answered 200.
C12_Witness ==
    /\ Done
    /\ status = 200
    /\ Len(log) = 5
    /\ \E i \in 1..Len(suspended) :
          /\ suspended[i].pc = "fetch"
          /\ suspended[i].base = 3
          /\ suspended[i].attempt = 2

----------------------------------------------------------------------------
(* extract_video_id on generated inputs *)

\* Longest input, in pieces
MaxPieces == 5

\* The pieces inputs are made of: white space, a literal prefix of each
\* pattern, an id, and a run of id characters shorter than an id (which
\* makes a longer run next to an id or to itself).
Pieces ==
    { <<" ">>,
      <<"y", "o", "u", "t", "u", ".", "b", "e", "/">>,
      <<"&", "v", "=">>,
      <<"/", "v", "/">>,
      ID1,
      <<"a", "b", "c", "d">> }

RECURSIVE Concat(_)
Concat(ps) == IF ps = << >> THEN << >> ELSE Head(ps) \o Concat(Tail(ps))

GeneratedInputs == { Concat(ps) : ps \in SeqsUpTo(Pieces, MaxPieces) }

InitExtract == Alone /\ \E u \in GeneratedInputs : Call(u)

NextExtract == Extract

\* download_audio applies extract_video_id to any generated input and answers
\* 400 or goes on to fetch_from_piped.
ExtractSpec == InitExtract /\ [][NextExtract]_vars

----------------------------------------------------------------------------
(* Properties of extract_video_id *)

\* extract_video_id has returned.
Extracted == pc # "start"

\* s holds, at position i, a query parameter v=<exactly 11 id characters>:
\* introduced by ? or &, and ended by the end of s or a character that is
\* not an id character.
WatchParamAt(s, i) ==
    /\ i >= 1
    /\ i + 2 + ID_LEN <= Len(s)
    /\ s[i] \in {"?", "&"}
    /\ s[i + 1] = "v"
    /\ s[i + 2] = "="
    /\ \A j \in (i + 3)..(i + 2 + ID_LEN) : s[j] \in IdChars
    /\ (i + 3 + ID_LEN <= Len(s)) => s[i + 3 + ID_LEN] \notin IdChars

WatchParams(s) == { i \in 1..Len(s) : WatchParamAt(s, i) }

\* s holds youtu.be/ followed by 11 id characters.
HasShortLink(s) ==
    \E i \in 1..Len(s) :
        /\ i + 8 + ID_LEN <= Len(s)
        /\ SubSeq(s, i, i + 8) = <<"y", "o", "u", "t", "u", ".", "b", "e", "/">>
        /\ \A j \in (i + 9)..(i + 8 + ID_LEN) : s[j] \in IdChars

\* C14 (as claimed): for an input that holds a well-formed query parameter
\* v=<11 id characters>, extract_video_id returns the 11 characters of such a
\* parameter, whatever surrounds it.
C14_WatchIdReturned ==
    (Extracted /\ WatchParams(url) # {}) =>
        \E i \in WatchParams(url) : video_id = SubSeq(url, i + 3, i + 2 + ID_LEN)

\* s holds, at position i, ?v= or &v= followed by 11 or more id characters.
WatchValueAt(s, i) ==
    /\ i >= 1
    /\ i + 2 + ID_LEN <= Len(s)
    /\ s[i] \in {"?", "&"}
    /\ s[i + 1] = "v"
    /\ s[i + 2] = "="
    /\ \A j \in (i + 3)..(i + 2 + ID_LEN) : s[j] \in IdChars

WatchValues(s) == { i \in 1..Len(s) : WatchValueAt(s, i) }

\* C14 (amended): for an input that holds a well-formed query parameter
\* v=<11 id characters> and no youtu.be/<11 id characters>, extract_video_id
\* returns the first 11 characters of the value of the leftmost v= parameter
\* whose value begins with 11 id characters: the 11 characters of the
\* leftmost well-formed parameter, unless a v= parameter with a longer run
\* of id characters stands before it.
C14_WatchIdUnlessShortLink ==
    (Extracted /\ WatchParams(url) # {} /\ ~HasShortLink(url)) =>
        LET i == CHOOSE x \in WatchValues(url) : \A y \in WatchValues(url) : x <= y
            w == CHOOSE x \in WatchParams(url) : \A y \in WatchParams(url) : x <= y
        IN  /\ video_id = SubSeq(url, i + 3, i + 2 + ID_LEN)
            /\ i <= w
            /\ i = w <=> (\A j \in WatchValues(url) : j < w => WatchParamAt(url, j))

\* A v= parameter too long to be an id stands before a well-formed one; the
\* first 11 characters of the long one are returned.
C14_Witness ==
    /\ Extracted
    /\ Cardinality(WatchParams(url)) = 1
    /\ Cardinality(WatchValues(url)) = 2
    /\ ~HasShortLink(url)
    /\ video_id # NoneStr
    /\ \E i \in WatchParams(url) :
          /\ SubSeq(url, i + 3, i + 2 + ID_LEN) # video_id
          /\ \E j \in WatchValues(url) : j < i

\* The patterns after the raw id test, in the order they are tried
Patterns == <<PatShort, PatWatch, PatEmbed, PatAny>>

\* The patterns that match somewhere in s
Matching(s) == { k \in 1..Len(Patterns) : MatchStarts(s, Patterns[k]) # {} }

\* C15: the patterns are applied to the trimmed input in the order raw id,
\* youtu.be/<id>, [?&]v=<id>, /embed/<id> or /v/<id>, any 11-character run,
\* and the capture of the first one that matches is returned; a trimmed
\* input of exactly 11 id characters is returned as it is.
C15_FirstPatternWins ==
    Extracted =>
        LET s == strip(url)
            ms == Matching(s)
        IN  /\ (Len(s) = ID_LEN /\ \A j \in 1..Len(s) : s[j] \in IdChars) => video_id = s
            /\ (~fullmatch_id(s) /\ ms # {}) =>
                  LET k == CHOOSE x \in ms : \A y \in ms : x <= y
                  IN  video_id = search_id(s, Patterns[k])

\* A watch form comes first in the input and a short link after it; the
\* short link's id is returned.
C15_Witness ==
    /\ Extracted
    /\ Matching(strip(url)) = {1, 2, 4}
    /\ StartsWith(url, <<"&", "v", "=">>)
    /\ search_id(url, PatWatch) # ID1
    /\ video_id = ID1

\* s holds 11 consecutive id characters somewhere.
HasIdRun(s) ==
    \E i \in 1..Len(s) : \A j \in 0..(ID_LEN - 1) : i + j <= Len(s) /\ s[i + j] \in IdChars

\* C16: extract_video_id returns None, answered 400, exactly when the trimmed
\* input holds no 11 consecutive id characters; whenever it holds such a run,
\* in a URL form or not, 11 id characters of the input are returned.
C16_FailsIffNoIdRun ==
    Extracted =>
        /\ video_id = NoneStr <=> ~HasIdRun(strip(url))
        /\ video_id = NoneStr <=> status = 400
        /\ video_id # NoneStr =>
              /\ Len(video_id) = ID_LEN
              /\ \A j \in 1..ID_LEN : video_id[j] \in IdChars
              /\ Contains(url, video_id)

\* No id: the input has a watch prefix and is longer than an id, but its
\* runs of id characters are too short.
C16_Witness ==
    /\ status = 400
    /\ Contains(url, <<"&", "v", "=", "a", "b", "c", "d", "a", "b", "c", "d", "&">>)
    /\ log = << >>

----------------------------------------------------------------------------
(* The structural scan on nested documents *)

\* Deepest level at which a generated document holds an entry (the values
\* of the root being level 1)
MaxNest == 4

\* A branch of a document: containers nested in one another, each holding
\* the next one as its only value, and an entry in the innermost one (in the
\* root itself when there are no containers).
Chain(kinds, leaf) == [kinds |-> kinds, leaf |-> leaf]

\* The nodes of a branch whose first node has index at
ChainNodes(c, at) ==
    [j \in 1..(Len(c.kinds) + 1) |->
        IF j > Len(c.kinds) THEN Dict(c.leaf.items)
        ELSE IF c.kinds[j] = "dict" THEN Dict(<<KV("next", R(at + j))>>)
        ELSE List(<<R(at + j)>>)]

BranchKeys == <<"info", "related">>

\* The document {"title": "T", "info": branch 1, "related": branch 2}
MkNested(chains) ==
    LET at(i) == IF i = 1 THEN 2 ELSE 2 + Len(chains[1].kinds) + 1
    IN  << Dict(Title \o [i \in 1..Len(chains) |-> KV(BranchKeys[i], R(at(i)))]) >>
        \o (IF Len(chains) >= 1 THEN ChainNodes(chains[1], at(1)) ELSE << >>)
        \o (IF Len(chains) >= 2 THEN ChainNodes(chains[2], at(2)) ELSE << >>)

\* Entries the scan accepts (an audio mime type, at the start or inside) and
\* entries it passes over (a video mime type, no url)
LeafEntries ==
    { Entry(S(U1), Absent, Absent, S(AudioMp4)),
      Entry(S(U2), Absent, Absent, S(XAudio)),
      Entry(S(U1), Absent, Absent, S(VideoMp4)),
      Entry(Absent, Absent, Absent, S(AudioMp4)) }

Chains ==
    { Chain(kinds, leaf) : kinds \in SeqsUpTo({"dict", "list"}, MaxNest - 1),
                           leaf \in LeafEntries }

\* The first request is answered 200 with a document of one or two branches.
AcceptNested ==
    /\ pc = "fetch"
    /\ \E cs \in SeqsUpTo(Chains, 2) : Accepted(Parsed(MkNested(cs)))

NextScan == Extract \/ AcceptNested

\* A resolution whose first mirror answers with any nested document
ScanSpec == InitSelect /\ [][NextScan]_vars

\* The container of h that holds a reference to node id
Parent(h, id) ==
    CHOOSE p \in 1..Len(h) : \E i \in 1..Len(h[p].items) : h[p].items[i].val = R(id)

\* The level of node id: 0 for the root, 1 for its values, and so on
RECURSIVE Depth(_, _)
Depth(h, id) == IF id = 1 THEN 0 ELSE 1 + Depth(h, Parent(h, id))

\* The dicts of h, below the root, that is_audio_candidate accepts
ScanCandidates(h) ==
    { id \in 2..Len(h) : is_audio_candidate(h, R(id)) = "yes" }

\* C18: the structural scan ends on every document; it goes no deeper than
\* a fixed depth, so that in documents nested deeply enough the entries of
\* the deepest level are out of its reach; it returns a candidate whenever
\* an entry with a url and an audio-indicating mimeType lies within that
\* depth, and None only when none does.
C18_ScanDepthBounded ==
    (Done /\ data # NoneDoc) =>
        /\ audio = Strategy3(data)
        /\ audio.tag = "found" =>
              /\ audio.val.n \in ScanCandidates(data)
              /\ Depth(data, audio.val.n) < MaxNest
        /\ audio.tag = "none" =>
              \A id \in ScanCandidates(data) : Depth(data, id) >= MaxNest

====
